---- MODULE Spec2Model ----
(***************************************************************************)
(* Order and portfolio ledger of the BSE Dummy Trading App (src/DT.py).    *)
(*                                                                         *)
(* State: the Streamlit session (st.session_state.portfolio, .balance) and *)
(* the three files PORTFOLIO_FILE, BALANCE_FILE, LIMIT_ORDER_FILE.  The    *)
(* pending limit orders live only in LIMIT_ORDER_FILE; every reader calls  *)
(* load_limit_orders().                                                    *)
(*                                                                         *)
(* Amounts are exact: prices are whole currency units and avg_price is a   *)
(* reduced fraction [num, den].  Python's float rounding is not modelled.  *)
(* json.dump/json.load and str/float give back the value written for the   *)
(* ints, floats, strings, lists and dicts written here, so a file holds    *)
(* the value itself; an absent file is <<>>, a present one <<content>>.    *)
(***************************************************************************)
EXTENDS Integers, Sequences, FiniteSets, TLC

\* ------------------------------------------------------------ bounds
\* Limit orders submitted in one run (each gets the next order id).
MaxSubmits == 2

\* Successful executions (market fills and sweep fills) in one run.
MaxFills == 2

\* The same two bounds for the run on the worked example's amounts.
ExMaxSubmits == 1
ExMaxFills == 3

\* And for the run with longer order books.
BookMaxSubmits == 3
BookMaxFills == 2

\* And for the run that trades two tickers at two prices.
PairMaxSubmits == 1
PairMaxFills == 3

\* ------------------------------------------------------------ inputs
\* What the user and the price source can enter in one run: the tickers typed,
\* st.number_input("Quantity", min_value=1, step=1), the regularMarketPrice
\* values the price source returns, st.number_input("Target Price",
\* min_value=0.0, ...), and the balance file an earlier run left.
Actions == {"buy", "sell"}

Small ==
    [tickers |-> {"A.BO", "B.BO"}, qtys |-> {1, 2}, prices |-> {2},
     limit_qtys |-> {1}, targets |-> {2}, quotes |-> {1, 2, 3}, loaded |-> {3},
     max_submits |-> MaxSubmits, max_fills |-> MaxFills]

\* The spec's worked example: buy 10 @ 100, buy 5 @ 120, sell 15 @ 130.
Example ==
    [tickers |-> {"A.BO"}, qtys |-> {5, 10, 15}, prices |-> {100, 120, 130},
     limit_qtys |-> {10}, targets |-> {120}, quotes |-> {100, 130}, loaded |-> {1500},
     max_submits |-> ExMaxSubmits, max_fills |-> ExMaxFills]

\* One ticker at one price, for books of three orders.
Book ==
    [tickers |-> {"A.BO"}, qtys |-> {1}, prices |-> {2},
     limit_qtys |-> {1}, targets |-> {2}, quotes |-> {2}, loaded |-> {3},
     max_submits |-> BookMaxSubmits, max_fills |-> BookMaxFills]

\* Two tickers at two market prices, three fills; the target price is the
\* quote shown or the widget's minimum, 0.0.
Pair ==
    [tickers |-> {"A.BO", "B.BO"}, qtys |-> {1, 2}, prices |-> {2, 3},
     limit_qtys |-> {1}, targets |-> {0, 2}, quotes |-> {2}, loaded |-> {3},
     max_submits |-> PairMaxSubmits, max_fills |-> PairMaxFills]

Tickers == Small.tickers \cup Example.tickers \cup Book.tickers
MaxIds == MaxSubmits + ExMaxSubmits + BookMaxSubmits

\* What stock.info.get("regularMarketPrice", None) can do in a sweep: give a
\* price, give None, or raise (the other two call sites wrap it in try/except).
QuoteOutcomes(P) ==
    {[kind |-> "price", price |-> p] : p \in P}
        \cup {[kind |-> "none", price |-> 0], [kind |-> "raise", price |-> 0]}

\* ------------------------------------------------------------ state
VARIABLES
    portfolio,       \* st.session_state.portfolio: ticker -> [qty, avg_price], with the
                     \* history fields lot_qty, lot_value: the shares bought, and
                     \* their total cost, since the position was opened
    balance,         \* st.session_state.balance
    portfolio_file,  \* PORTFOLIO_FILE
    balance_file,    \* BALANCE_FILE
    orders_file,     \* LIMIT_ORDER_FILE
    nextId,          \* history: id given to the next submitted limit order
    execCount,       \* history: order id -> number of times a sweep executed it
    fills,           \* history: per ticker, totals of the executed fills since the
                     \* session's start or the last reset, and the quantities
                     \* since the first start or the last reset
    startBalance,    \* history: balance at session start or after the last reset
    fillCount,       \* history: executed fills in this run (bounded by MaxFills)
    exStage,         \* history: progress through the spec's worked example
    last             \* history: the operation that led to this state, with its inputs

vars == <<portfolio, balance, portfolio_file, balance_file, orders_file,
          nextId, execCount, fills, startBalance, fillCount, exStage, last>>

\* ------------------------------------------------------------ arithmetic
RECURSIVE Gcd(_, _)
Gcd(a, b) == IF b = 0 THEN a ELSE Gcd(b, a % b)

\* The fraction n/d (d > 0, n >= 0) in lowest terms.
Frac(n, d) == LET g == Gcd(n, d) IN [num |-> n \div g, den |-> d \div g]

\* An average that is the plain mean of the old average and the new price.
NewAvg_Unweighted(old_qty, old_avg, qty, ltp, new_qty) ==
    Frac(old_avg.num + ltp * old_avg.den, 2 * old_avg.den)

\* (old_qty * old_avg + qty * ltp) / new_qty
NewAvg(old_qty, old_avg, qty, ltp, new_qty) ==
    Frac(old_qty * old_avg.num + qty * ltp * old_avg.den, old_avg.den * new_qty)

\* ------------------------------------------------------------ persistence
StartingBalance == 1000000

\* {"qty": 0, "avg_price": 0}, the position of a ticker that is not held.
NoPosition == [qty |-> 0, avg_price |-> Frac(0, 1), lot_qty |-> 0, lot_value |-> 0]

EmptyPortfolio == [t \in {} |-> NoPosition]

\* portfolio.get(ticker, {"qty": 0, "avg_price": 0})
PortfolioGet(pf, ticker) ==
    IF ticker \in DOMAIN pf THEN pf[ticker] ELSE NoPosition

\* st.session_state.portfolio[ticker] = pos
PortfolioSet(pf, ticker, pos) ==
    [t \in (DOMAIN pf) \cup {ticker} |-> IF t = ticker THEN pos ELSE pf[t]]

\* del st.session_state.portfolio[ticker]
PortfolioDel(pf, ticker) == [t \in (DOMAIN pf) \ {ticker} |-> pf[t]]

load_limit_orders == IF orders_file = <<>> THEN <<>> ELSE orders_file[1]

\* Session initialisation: the file's content, or the default when it is absent.
LoadPortfolio(file) == IF file = <<>> THEN EmptyPortfolio ELSE file[1]
LoadBalance(file) == IF file = <<>> THEN StartingBalance ELSE file[1]

\* save_session(): both files are written from the session.
SaveSession(pf, bal) ==
    /\ portfolio_file' = <<pf>>
    /\ balance_file' = <<bal>>

\* ------------------------------------------------------------ one sweep
Ledger(pf, bal) == [portfolio |-> pf, balance |-> bal]

\* A sweep that takes every quoted order as triggered.
Triggered_Always(order, ltp) == TRUE

\* (action == "buy" and ltp <= target_price) or (action == "sell" and ltp >= target_price)
Triggered(order, ltp) ==
    \/ order.action = "buy" /\ ltp <= order.target_price
    \/ order.action = "sell" /\ ltp >= order.target_price

\* A sweep that executes a triggered buy without looking at the balance.
CanBuy_Always(bal, qty, ltp) == TRUE

\* process_limit_orders, action == "buy": cost <= st.session_state.balance
CanBuy(bal, qty, ltp) == qty * ltp <= bal

\* A sweep that does not sell the whole of a holding.
CanSell_NotAll(pf, ticker, qty) == PortfolioGet(pf, ticker).qty > qty

\* process_limit_orders, action == "sell": p["qty"] >= qty
CanSell(pf, ticker, qty) == PortfolioGet(pf, ticker).qty >= qty

\* The executed buy of process_limit_orders: the position is replaced by
\* {qty: new_qty, avg_price: new_avg} and the balance reduced by the cost.
SweepBuy(pf, bal, ticker, qty, ltp) ==
    LET p == PortfolioGet(pf, ticker)
        cost == qty * ltp
        new_qty == p.qty + qty
        new_avg == NewAvg(p.qty, p.avg_price, qty, ltp, new_qty)
    IN  Ledger(PortfolioSet(pf, ticker, [qty |-> new_qty, avg_price |-> new_avg,
                                         lot_qty |-> p.lot_qty + qty,
                                         lot_value |-> p.lot_value + cost]),
               bal - cost)

\* A sweep sell that keeps a position sold down to zero.
SweepSell_KeepsZero(pf, bal, ticker, qty, ltp) ==
    LET p == PortfolioGet(pf, ticker)
        left == p.qty - qty
    IN  Ledger(PortfolioSet(pf, ticker, [p EXCEPT !.qty = left]), bal + qty * ltp)

\* A sweep sell that takes the sale price as the average of the shares left.
SweepSell_Reaverage(pf, bal, ticker, qty, ltp) ==
    LET p == PortfolioGet(pf, ticker)
        left == p.qty - qty
    IN  Ledger(IF left > 0
                 THEN PortfolioSet(pf, ticker, [p EXCEPT !.qty = left, !.avg_price = Frac(ltp, 1)])
                 ELSE PortfolioDel(pf, ticker),
               bal + qty * ltp)

\* The executed sell of process_limit_orders: p["qty"] -= qty; the position is
\* kept if p["qty"] > 0 and deleted otherwise; the balance grows by qty * ltp.
SweepSell(pf, bal, ticker, qty, ltp) ==
    LET p == PortfolioGet(pf, ticker)
        left == p.qty - qty
    IN  Ledger(IF left > 0
                 THEN PortfolioSet(pf, ticker, [p EXCEPT !.qty = left])
                 ELSE PortfolioDel(pf, ticker),
               bal + qty * ltp)

\* History: what one order met: the quote looked up for it, what was done with
\* it, and the session's ledger before and after.
Entry(order, q, outcome, before, after) ==
    [order |-> order, quote |-> q, outcome |-> outcome, before |-> before, after |-> after]

\* A sweep that books an executed order at its limit price.
FillPrice_AtLimit(order, ltp) == order.target_price

\* The price an executed order is booked at: qty * ltp, the quote just read.
FillPrice(order, ltp) == ltp

\* One iteration of "for order in orders" on the loop state st =
\* [portfolio, balance, remaining, changed, raised, log], with the outcome q of
\* stock.info.get("regularMarketPrice", None) for this order.
SweepStep(st, order, q) ==
    LET before == Ledger(st.portfolio, st.balance)
        keep(outcome) ==
            [st EXCEPT !.remaining = Append(@, order),
                       !.log = Append(@, Entry(order, q, outcome, before, before))]
        exec(after) ==
            [st EXCEPT !.portfolio = after.portfolio,
                       !.balance = after.balance,
                       !.changed = TRUE,
                       !.log = Append(@, Entry(order, q, "executed", before, after))]
        ltp == FillPrice(order, q.price)
    IN  IF q.kind = "raise"
          THEN [st EXCEPT !.raised = TRUE,
                          !.log = Append(@, Entry(order, q, "raised", before, before))]
        ELSE IF q.kind = "none"
          THEN keep("noquote")
        ELSE IF ~Triggered(order, q.price)
          THEN keep("untriggered")
        ELSE IF order.action = "buy"
          THEN IF CanBuy(st.balance, order.qty, ltp)
                 THEN exec(SweepBuy(st.portfolio, st.balance, order.ticker, order.qty, ltp))
                 ELSE keep("blocked")
        ELSE IF CanSell(st.portfolio, order.ticker, order.qty)
          THEN exec(SweepSell(st.portfolio, st.balance, order.ticker, order.qty, ltp))
          ELSE keep("blocked")

\* A loop that takes the orders from the last to the first.
RECURSIVE SweepLoop_Reversed(_, _, _, _)
SweepLoop_Reversed(st, orders, quotes, i) ==
    LET k == Len(orders) + 1 - i
    IN  IF i > Len(orders) \/ st.raised
          THEN st
          ELSE SweepLoop_Reversed(SweepStep(st, orders[k], quotes[k]), orders, quotes, i + 1)

\* The loop of process_limit_orders from order i on; an exception ends it.
RECURSIVE SweepLoop(_, _, _, _)
SweepLoop(st, orders, quotes, i) ==
    IF i > Len(orders) \/ st.raised
      THEN st
      ELSE SweepLoop(SweepStep(st, orders[i], quotes[i]), orders, quotes, i + 1)

Executed(log) == {i \in 1..Len(log) : log[i].outcome = "executed"}

\* ------------------------------------------------------------ history
\* all_buy_qty and all_sell_qty count on through later sessions, until a reset.
NoFills ==
    [t \in Tickers |-> [buy_qty |-> 0, buy_value |-> 0, sell_qty |-> 0, sell_value |-> 0,
                        all_buy_qty |-> 0, all_sell_qty |-> 0]]

\* The fill totals a new session starts with.
NewSession(f) ==
    [t \in Tickers |-> [NoFills[t] EXCEPT !.all_buy_qty = f[t].all_buy_qty,
                                          !.all_sell_qty = f[t].all_sell_qty]]

\* The fill totals after one more executed buy or sell of qty at price.
AddFill(f, ticker, action, qty, price) ==
    IF action = "buy"
      THEN [f EXCEPT ![ticker].buy_qty = @ + qty, ![ticker].buy_value = @ + qty * price,
                     ![ticker].all_buy_qty = @ + qty]
      ELSE [f EXCEPT ![ticker].sell_qty = @ + qty, ![ticker].sell_value = @ + qty * price,
                     ![ticker].all_sell_qty = @ + qty]

\* The fill totals after the executed entries of a sweep log, in order.
RECURSIVE AddLog(_, _, _)
AddLog(f, log, i) ==
    IF i > Len(log) THEN f
    ELSE AddLog(IF log[i].outcome = "executed"
                  THEN AddFill(f, log[i].order.ticker, log[i].order.action,
                               log[i].order.qty, log[i].quote.price)
                  ELSE f,
                log, i + 1)

\* The worked example: from the default start, market buy 10 @ 100, buy 5 @ 120,
\* sell 15 @ 130 of one ticker, and no other fill.  0..3 counts the steps done,
\* -1 says the run has left the example.
ExampleStep(stage, ticker, action, qty, price) ==
    IF      stage = 0 /\ ticker = "A.BO" /\ action = "buy" /\ qty = 10 /\ price = 100 THEN 1
    ELSE IF stage = 1 /\ ticker = "A.BO" /\ action = "buy" /\ qty = 5 /\ price = 120 THEN 2
    ELSE IF stage = 2 /\ ticker = "A.BO" /\ action = "sell" /\ qty = 15 /\ price = 130 THEN 3
    ELSE -1

ExampleStart(pf, bal) == IF pf = EmptyPortfolio /\ bal = StartingBalance THEN 0 ELSE -1

\* The operation, whether it was a buy or a sell, whether it went through, and
\* for a sweep what happened to each order.
Op(name, action, ok, log) == [op |-> name, action |-> action, ok |-> ok, log |-> log]

PlainOp(name) == Op(name, "", TRUE, <<>>)

\* ------------------------------------------------------------ initial state
\* A session starts from the files an earlier run left: here none, or a
\* balance file alone (the run bought and sold back at a loss).
InitWith(U) ==
    /\ portfolio_file = <<>>
    /\ orders_file = <<>>
    /\ balance_file \in {<<>>} \cup {<<b>> : b \in U.loaded}
    /\ portfolio = LoadPortfolio(portfolio_file)
    /\ balance = LoadBalance(balance_file)
    /\ nextId = 1
    /\ execCount = [i \in 1..MaxIds |-> 0]
    /\ fills = NoFills
    /\ startBalance = balance
    /\ fillCount = 0
    /\ exStage = ExampleStart(portfolio, balance)
    /\ last = PlainOp("start")

Init == InitWith(Small)

\* ------------------------------------------------------------ operations
\* A market buy that is never refused.
MarketBuyRefused_Never(bal, qty, ltp) == FALSE

\* Market buy: cost > st.session_state.balance gives "Insufficient balance."
MarketBuyRefused(bal, qty, ltp) == qty * ltp > bal

\* Market sell: qty > holdings["qty"] gives "Not enough shares to sell."
MarketSellRefused(pf, symbol, qty) == qty > PortfolioGet(pf, symbol).qty

\* A market buy that takes the price just paid as the new average.
MarketBuy_LastPrice(pf, bal, symbol, qty, ltp) ==
    LET holdings == PortfolioGet(pf, symbol)
        cost == qty * ltp
    IN  Ledger(PortfolioSet(pf, symbol, [qty |-> holdings.qty + qty, avg_price |-> Frac(ltp, 1),
                                         lot_qty |-> holdings.lot_qty + qty,
                                         lot_value |-> holdings.lot_value + cost]),
               bal - cost)

\* The executed market buy.
MarketBuy(pf, bal, symbol, qty, ltp) ==
    LET holdings == PortfolioGet(pf, symbol)
        cost == qty * ltp
        new_qty == holdings.qty + qty
        new_avg == NewAvg(holdings.qty, holdings.avg_price, qty, ltp, new_qty)
    IN  Ledger(PortfolioSet(pf, symbol, [qty |-> new_qty, avg_price |-> new_avg,
                                         lot_qty |-> holdings.lot_qty + qty,
                                         lot_value |-> holdings.lot_value + cost]),
               bal - cost)

\* A market sell that credits the price of one share whatever the quantity.
MarketSell_OneShare(pf, bal, symbol, qty, ltp) ==
    LET holdings == PortfolioGet(pf, symbol)
        left == holdings.qty - qty
    IN  Ledger(IF left = 0
                 THEN PortfolioDel(pf, symbol)
                 ELSE PortfolioSet(pf, symbol, [holdings EXCEPT !.qty = left]),
               bal + ltp)

\* The executed market sell: holdings["qty"] -= qty; the position is deleted
\* if holdings["qty"] == 0 and stored otherwise; the balance grows by qty * ltp.
MarketSell(pf, bal, symbol, qty, ltp) ==
    LET holdings == PortfolioGet(pf, symbol)
        left == holdings.qty - qty
    IN  Ledger(IF left = 0
                 THEN PortfolioDel(pf, symbol)
                 ELSE PortfolioSet(pf, symbol, [holdings EXCEPT !.qty = left]),
               bal + qty * ltp)

\* A market order that is put on the pending list at the quote instead of
\* being executed.
MarketOrder_Queues(U, symbol, action, qty, ltp) ==
    /\ ltp > 0
    /\ orders_file' = <<Append(load_limit_orders,
                               [ticker |-> symbol, action |-> action, qty |-> qty,
                                target_price |-> ltp, id |-> 0])>>
    /\ last' = Op("market", action, FALSE,
                   <<Entry([ticker |-> symbol, action |-> action, qty |-> qty,
                            target_price |-> 0, id |-> 0],
                           [kind |-> "price", price |-> ltp], "refused",
                           Ledger(portfolio, balance), Ledger(portfolio, balance))>>)
    /\ UNCHANGED <<portfolio, balance, portfolio_file, balance_file, nextId, execCount,
                   fills, startBalance, fillCount, exStage>>

\* "Execute Trade" with order type Market (the button is drawn only if ltp > 0).
\* save_session() follows an executed order only.
MarketOrder(U, symbol, action, qty, ltp) ==
    LET ok == IF action = "buy" THEN ~MarketBuyRefused(balance, qty, ltp)
              ELSE ~MarketSellRefused(portfolio, symbol, qty)
        new == IF action = "buy" THEN MarketBuy(portfolio, balance, symbol, qty, ltp)
               ELSE MarketSell(portfolio, balance, symbol, qty, ltp)
    IN  /\ ltp > 0
        /\ ok => fillCount < U.max_fills
        /\ IF ok
             THEN /\ portfolio' = new.portfolio
                  /\ balance' = new.balance
                  /\ SaveSession(new.portfolio, new.balance)
                  /\ fills' = AddFill(fills, symbol, action, qty, ltp)
                  /\ fillCount' = fillCount + 1
                  /\ exStage' = ExampleStep(exStage, symbol, action, qty, ltp)
             ELSE UNCHANGED <<portfolio, balance, portfolio_file, balance_file,
                              fills, fillCount, exStage>>
        /\ last' = Op("market", action, ok,
                       <<Entry([ticker |-> symbol, action |-> action, qty |-> qty,
                                target_price |-> 0, id |-> 0],
                               [kind |-> "price", price |-> ltp],
                               IF ok THEN "executed" ELSE "refused",
                               Ledger(portfolio, balance),
                               IF ok THEN new ELSE Ledger(portfolio, balance))>>)
        /\ UNCHANGED <<orders_file, nextId, execCount, startBalance>>

\* A limit submission that turns away a buy the balance cannot pay for.
SubmitLimit_ChecksFunds(U, symbol, action, qty, ltp, target_price) ==
    /\ ltp > 0
    /\ nextId <= U.max_submits
    /\ IF action = "buy" /\ qty * target_price > balance
         THEN UNCHANGED <<orders_file, nextId>>
         ELSE /\ orders_file' = <<Append(load_limit_orders,
                                         [ticker |-> symbol, action |-> action, qty |-> qty,
                                          target_price |-> target_price, id |-> nextId])>>
              /\ nextId' = nextId + 1
    /\ last' = Op("limit", action, TRUE, <<>>)
    /\ UNCHANGED <<portfolio, balance, portfolio_file, balance_file,
                   execCount, fills, startBalance, fillCount, exStage>>

\* "Execute Trade" with order type Limit: the order is appended to the file.
SubmitLimit(U, symbol, action, qty, ltp, target_price) ==
    /\ ltp > 0
    /\ nextId <= U.max_submits
    /\ orders_file' = <<Append(load_limit_orders,
                               [ticker |-> symbol, action |-> action, qty |-> qty,
                                target_price |-> target_price, id |-> nextId])>>
    /\ nextId' = nextId + 1
    /\ last' = Op("limit", action, TRUE, <<>>)
    /\ UNCHANGED <<portfolio, balance, portfolio_file, balance_file,
                   execCount, fills, startBalance, fillCount, exStage>>

\* "Execute Pending Limit Orders" (drawn only when there are pending orders):
\* process_limit_orders() with quotes[i] the lookup's outcome for the i-th order.
\* An exception leaves the function before save_session and save_limit_orders.
ProcessLimitOrders(U, quotes) ==
    LET orders == load_limit_orders
        st == SweepLoop([portfolio |-> portfolio, balance |-> balance, remaining |-> <<>>,
                         changed |-> FALSE, raised |-> FALSE, log |-> <<>>],
                        orders, quotes, 1)
        done == Executed(st.log)
    IN  /\ orders # <<>>
        /\ fillCount + Cardinality(done) <= U.max_fills
        /\ portfolio' = st.portfolio
        /\ balance' = st.balance
        /\ IF st.raised
             THEN UNCHANGED <<portfolio_file, balance_file, orders_file>>
             ELSE /\ IF st.changed
                       THEN SaveSession(st.portfolio, st.balance)
                       ELSE UNCHANGED <<portfolio_file, balance_file>>
                  /\ orders_file' = <<st.remaining>>
        /\ execCount' = [i \in DOMAIN execCount |->
                           execCount[i] + Cardinality({k \in done : st.log[k].order.id = i})]
        /\ fills' = AddLog(fills, st.log, 1)
        /\ fillCount' = fillCount + Cardinality(done)
        /\ exStage' = IF done = {} THEN exStage ELSE -1
        /\ last' = Op("sweep", "", ~st.raised, st.log)
        /\ UNCHANGED <<nextId, startBalance>>

\* A reset that forgets to remove the order file.
ResetPortfolio_KeepsOrders ==
    /\ portfolio' = EmptyPortfolio
    /\ balance' = StartingBalance
    /\ portfolio_file' = <<>>
    /\ balance_file' = <<>>
    /\ fills' = NoFills
    /\ startBalance' = StartingBalance
    /\ exStage' = 0
    /\ last' = PlainOp("reset")
    /\ UNCHANGED <<orders_file, nextId, execCount, fillCount>>

\* "Reset Portfolio": the session is reset, saved, and all three files removed.
ResetPortfolio ==
    /\ portfolio' = EmptyPortfolio
    /\ balance' = StartingBalance
    /\ portfolio_file' = <<>>
    /\ balance_file' = <<>>
    /\ orders_file' = <<>>
    /\ fills' = NoFills
    /\ startBalance' = StartingBalance
    /\ exStage' = 0
    /\ last' = PlainOp("reset")
    /\ UNCHANGED <<nextId, execCount, fillCount>>

\* A refresh that also settles the pending orders at the fresh quotes.
RefreshPrices_Settles ==
    \E quotes \in [1..Len(load_limit_orders) -> QuoteOutcomes(Small.quotes)] :
        LET st == SweepLoop([portfolio |-> portfolio, balance |-> balance, remaining |-> <<>>,
                             changed |-> FALSE, raised |-> FALSE, log |-> <<>>],
                            load_limit_orders, quotes, 1)
        IN  /\ portfolio' = st.portfolio
            /\ balance' = st.balance
            /\ IF st.changed
                 THEN SaveSession(st.portfolio, st.balance) /\ orders_file' = <<st.remaining>>
                 ELSE UNCHANGED <<portfolio_file, balance_file, orders_file>>
            /\ last' = PlainOp("refresh")
            /\ UNCHANGED <<nextId, execCount, fills, startBalance, fillCount, exStage>>

\* "Refresh Prices": a rerun of the script that shows fresh quotes.
RefreshPrices ==
    /\ last' = PlainOp("refresh")
    /\ UNCHANGED <<portfolio, balance, portfolio_file, balance_file, orders_file,
                   nextId, execCount, fills, startBalance, fillCount, exStage>>

\* A new session: portfolio and balance are read from the files, or defaulted.
SessionStart ==
    /\ portfolio' = LoadPortfolio(portfolio_file)
    /\ balance' = LoadBalance(balance_file)
    /\ fills' = NewSession(fills)
    /\ startBalance' = LoadBalance(balance_file)
    /\ exStage' = ExampleStart(LoadPortfolio(portfolio_file), LoadBalance(balance_file))
    /\ last' = PlainOp("start")
    /\ UNCHANGED <<portfolio_file, balance_file, orders_file, nextId, execCount, fillCount>>

NextWith(U) ==
    \/ \E s \in U.tickers, a \in Actions, q \in U.qtys, p \in U.prices :
          MarketOrder(U, s, a, q, p)
    \/ \E s \in U.tickers, a \in Actions, q \in U.limit_qtys, p \in U.prices, tp \in U.targets :
          SubmitLimit(U, s, a, q, p, tp)
    \/ \E quotes \in [1..Len(load_limit_orders) -> QuoteOutcomes(U.quotes)] :
          ProcessLimitOrders(U, quotes)
    \/ ResetPortfolio
    \/ RefreshPrices
    \/ SessionStart

Next == NextWith(Small)

Spec == Init /\ [][Next]_vars

\* The same program on the amounts of the spec's worked example.
InitExample == InitWith(Example)

NextExample == NextWith(Example)

SpecExample == InitExample /\ [][NextExample]_vars

\* The same program with up to three pending orders of one ticker.
InitBook == InitWith(Book)

NextBook == NextWith(Book)

SpecBook == InitBook /\ [][NextBook]_vars

\* The same program trading two tickers at two market prices.
InitPair == InitWith(Pair)

NextPair == NextWith(Pair)

SpecPair == InitPair /\ [][NextPair]_vars

\* ------------------------------------------------------------ interruption
\* The process is killed inside a handler, between two of its file writes.
\* The session dies with it; the program's next state is a new session that
\* loads what the files hold; f is the fill totals with the fills of the
\* handler that was cut short.
Restart(pfile, bfile, f) ==
    /\ portfolio' = LoadPortfolio(pfile)
    /\ balance' = LoadBalance(bfile)
    /\ fills' = NewSession(f)
    /\ startBalance' = LoadBalance(bfile)
    /\ exStage' = ExampleStart(LoadPortfolio(pfile), LoadBalance(bfile))

\* An executed market order killed inside save_session(), after PORTFOLIO_FILE
\* is written and before BALANCE_FILE is.
KilledInMarketOrder(U, symbol, action, qty, ltp) ==
    LET ok == IF action = "buy" THEN ~MarketBuyRefused(balance, qty, ltp)
              ELSE ~MarketSellRefused(portfolio, symbol, qty)
        new == IF action = "buy" THEN MarketBuy(portfolio, balance, symbol, qty, ltp)
               ELSE MarketSell(portfolio, balance, symbol, qty, ltp)
    IN  /\ ltp > 0
        /\ ok
        /\ fillCount < U.max_fills
        /\ portfolio_file' = <<new.portfolio>>
        /\ Restart(<<new.portfolio>>, balance_file, AddFill(fills, symbol, action, qty, ltp))
        /\ fillCount' = fillCount + 1
        /\ last' = Op("killed", action, FALSE,
                       <<Entry([ticker |-> symbol, action |-> action, qty |-> qty,
                                target_price |-> 0, id |-> 0],
                               [kind |-> "price", price |-> ltp], "executed",
                               Ledger(portfolio, balance), new)>>)
        /\ UNCHANGED <<balance_file, orders_file, nextId, execCount>>

\* A sweep that executed an order, killed inside save_session() (at = "portfolio":
\* PORTFOLIO_FILE is written, BALANCE_FILE is not) or between save_session()
\* and save_limit_orders(remaining) (at = "session").
KilledInSweep(U, quotes, at) ==
    LET orders == load_limit_orders
        st == SweepLoop([portfolio |-> portfolio, balance |-> balance, remaining |-> <<>>,
                         changed |-> FALSE, raised |-> FALSE, log |-> <<>>],
                        orders, quotes, 1)
        done == Executed(st.log)
        bfile == IF at = "session" THEN <<st.balance>> ELSE balance_file
    IN  /\ orders # <<>>
        /\ ~st.raised
        /\ st.changed
        /\ fillCount + Cardinality(done) <= U.max_fills
        /\ portfolio_file' = <<st.portfolio>>
        /\ balance_file' = bfile
        /\ Restart(<<st.portfolio>>, bfile, AddLog(fills, st.log, 1))
        /\ execCount' = [i \in DOMAIN execCount |->
                           execCount[i] + Cardinality({k \in done : st.log[k].order.id = i})]
        /\ fillCount' = fillCount + Cardinality(done)
        /\ last' = Op("killed", "", FALSE, st.log)
        /\ UNCHANGED <<orders_file, nextId>>

\* The program on books of up to three orders, with such interruptions.
NextTorn ==
    \/ NextWith(Book)
    \/ \E s \in Book.tickers, a \in Actions, q \in Book.qtys, p \in Book.prices :
          KilledInMarketOrder(Book, s, a, q, p)
    \/ \E quotes \in [1..Len(load_limit_orders) -> QuoteOutcomes(Book.quotes)],
          at \in {"portfolio", "session"} :
          KilledInSweep(Book, quotes, at)

SpecTorn == InitBook /\ [][NextTorn]_vars

\* ------------------------------------------------------------ claims
\* The sum of f[x] over x in S.
RECURSIVE SumOver(_, _)
SumOver(f, S) ==
    IF S = {} THEN 0 ELSE LET x == CHOOSE y \in S : TRUE IN f[x] + SumOver(f, S \ {x})

SumBuyValue == SumOver([t \in Tickers |-> fills[t].buy_value], Tickers)
SumSellValue == SumOver([t \in Tickers |-> fills[t].sell_value], Tickers)

PendingIds == {load_limit_orders[i].id : i \in 1..Len(load_limit_orders)}
Pending(order) == \E i \in 1..Len(load_limit_orders) : load_limit_orders[i] = order

\* C1: in every reachable state the cash balance is >= 0, in the session and
\* in the balance file a later session would load.
C1_BalanceNeverNegative ==
    /\ balance >= 0
    /\ LoadBalance(balance_file) >= 0

\* A run that spent its whole balance: buys were executed and nothing is left.
C1_Witness ==
    /\ balance = 0
    /\ SumBuyValue > 0
    /\ balance_file = <<0>>

\* C2: every limit order is settled at most once: an order a sweep has
\* executed is no longer in the pending list, and no sweep executes it again.
C2_SettledAtMostOnce ==
    \A id \in DOMAIN execCount :
        /\ execCount[id] <= 1
        /\ execCount[id] >= 1 => id \notin PendingIds

\* The quote of a log entry meets the trigger of its order.
C3_TriggerMet(e) ==
    /\ e.quote.kind = "price"
    /\ \/ e.order.action = "buy" /\ e.quote.price <= e.order.target_price
       \/ e.order.action = "sell" /\ e.quote.price >= e.order.target_price

\* C3: a sweep executes an order only if the quote it observed for the order
\* satisfies the trigger (quote <= limit for a buy, quote >= limit for a sell);
\* an order whose quote does not satisfy it is left alone and still pending.
C3_ExecutedOnlyIfTriggered ==
    last.op = "sweep" =>
        \A i \in 1..Len(last.log) :
            LET e == last.log[i]
            IN  /\ e.outcome = "executed" => C3_TriggerMet(e)
                /\ (e.quote.kind = "price" /\ ~C3_TriggerMet(e)) =>
                       /\ e.after = e.before
                       /\ Pending(e.order)

\* A sweep that executed one order and left another whose quote missed its limit.
C3_Witness ==
    /\ last.op = "sweep"
    /\ \E i, j \in 1..Len(last.log) :
          /\ last.log[i].outcome = "executed"
          /\ last.log[j].quote.kind = "price"
          /\ ~C3_TriggerMet(last.log[j])
          /\ Pending(last.log[j].order)

\* The ledger change of an executed log entry, priced at the quote of the entry.
C4_Booked(e) ==
    LET q == e.order.qty
        p == e.quote.price
        t == e.order.ticker
        old == IF t \in DOMAIN e.before.portfolio THEN e.before.portfolio[t]
               ELSE [qty |-> 0, avg_price |-> [num |-> 0, den |-> 1]]
    IN  IF e.order.action = "buy"
          THEN /\ e.after.balance = e.before.balance - q * p
               /\ t \in DOMAIN e.after.portfolio
               /\ e.after.portfolio[t].qty = old.qty + q
               /\ e.after.portfolio[t].avg_price.num * old.avg_price.den * (old.qty + q)
                    = (old.qty * old.avg_price.num + q * p * old.avg_price.den)
                        * e.after.portfolio[t].avg_price.den
          ELSE e.after.balance = e.before.balance + q * p

\* C4: an order executed in a sweep is booked at the quote read for it in that
\* sweep, not at its limit price: a buy takes qty * quote from the balance and
\* enters the position at (old_qty * old_avg + qty * quote) / (old_qty + qty);
\* a sell adds qty * quote to the balance.  The entries follow one another and
\* the last one ends in the session's ledger.
C4_FillsAtLiveQuote ==
    last.op = "sweep" =>
        /\ \A i \in 1..Len(last.log) :
              /\ last.log[i].outcome = "executed" => C4_Booked(last.log[i])
              /\ i < Len(last.log) => last.log[i + 1].before = last.log[i].after
        /\ last.log # <<>> =>
              last.log[Len(last.log)].after = [portfolio |-> portfolio, balance |-> balance]

\* A sweep that executed a buy below its limit and a sell above its limit.
C4_Witness ==
    /\ last.op = "sweep"
    /\ \E i, j \in 1..Len(last.log) :
          /\ last.log[i].outcome = "executed"
          /\ last.log[i].order.action = "buy"
          /\ last.log[i].quote.price < last.log[i].order.target_price
          /\ last.log[j].outcome = "executed"
          /\ last.log[j].order.action = "sell"
          /\ last.log[j].quote.price > last.log[j].order.target_price

\* A log entry whose trigger is met but whose order the ledger cannot carry.
C5_Held(e) ==
    IF e.order.ticker \in DOMAIN e.before.portfolio
      THEN e.before.portfolio[e.order.ticker].qty ELSE 0

C5_Affordable(e) ==
    IF e.order.action = "buy"
      THEN e.order.qty * e.quote.price <= e.before.balance
      ELSE e.order.qty <= C5_Held(e)

C5_Blocked(e) == C3_TriggerMet(e) /\ ~C5_Affordable(e)

\* C5: in a sweep, an order whose trigger is met but which cannot be paid for
\* (buy) or is not covered by the holding (sell) changes nothing and stays
\* pending, and every other order of the book is still evaluated and settles as
\* its own quote, trigger and affordability allow: executed and gone from the
\* book, or untouched and still in it.
C5_BlockedOrderIsolated ==
    [][(/\ last'.op = "sweep"
        /\ \E i \in 1..Len(last'.log) : C5_Blocked(last'.log[i]))
       => /\ Len(last'.log) = Len(load_limit_orders)
          /\ \A i \in 1..Len(last'.log) :
                LET e == last'.log[i]
                    pending_after == \E k \in 1..Len(load_limit_orders') :
                                        load_limit_orders'[k] = e.order
                IN  /\ e.order = load_limit_orders[i]
                    /\ C5_Blocked(e) => e.after = e.before /\ pending_after
                    /\ (C3_TriggerMet(e) /\ C5_Affordable(e)) =>
                           e.outcome = "executed" /\ ~pending_after
                    /\ (e.quote.kind = "price" /\ ~C3_TriggerMet(e)) =>
                           e.after = e.before /\ pending_after]_vars

\* C6: when the lookup for an order's symbol fails or gives no price, the
\* order stays pending, the sweep is not aborted, every order of the book is
\* evaluated, and the resulting ledger and order list are the persisted ones.
C6_QuoteFailureIsolated ==
    [][last'.op = "sweep"
       => /\ last'.ok
          /\ Len(last'.log) = Len(load_limit_orders)
          /\ \A i \in 1..Len(last'.log) :
                LET e == last'.log[i]
                IN  /\ e.order = load_limit_orders[i]
                    /\ e.quote.kind # "price" =>
                          /\ e.after = e.before
                          /\ \E k \in 1..Len(load_limit_orders') :
                                load_limit_orders'[k] = e.order
          /\ (\E i \in 1..Len(last'.log) : last'.log[i].outcome = "executed") =>
                /\ LoadPortfolio(portfolio_file') = portfolio'
                /\ LoadBalance(balance_file') = balance'
          /\ Executed(last'.log) # {} => Len(load_limit_orders') < Len(load_limit_orders)]_vars

\* C7: after a reset the balance is 1,000,000, the holdings are empty and the
\* order book is empty, in the session and as a new session would load them.
\* The state after a reset is this one state whatever came before, so a second
\* reset changes nothing.
C7_ResetRestoresDefaults ==
    last.op = "reset" =>
        /\ balance = 1000000
        /\ DOMAIN portfolio = {}
        /\ load_limit_orders = <<>>
        /\ LoadBalance(balance_file) = 1000000
        /\ DOMAIN LoadPortfolio(portfolio_file) = {}
        /\ orders_file = <<>>

\* A reset in a run that had executed orders and submitted limit orders.
C7_Witness ==
    /\ last.op = "reset"
    /\ fillCount > 0
    /\ nextId > 1

\* The market order of a log entry exceeds the balance (buy) or the holding (sell).
C8_MustFail(e) ==
    IF e.order.action = "buy"
      THEN e.order.qty * e.quote.price > balance
      ELSE e.order.qty > (IF e.order.ticker \in DOMAIN portfolio
                            THEN portfolio[e.order.ticker].qty ELSE 0)

\* C8: a market buy costing more than the balance, or a market sell of more
\* shares than are held, leaves balance, holdings and the pending orders as
\* they were, in the session and in the files.
C8_FailedMarketOrderNoChange ==
    [][(last'.op = "market" /\ C8_MustFail(last'.log[1]))
       => UNCHANGED <<portfolio, balance, portfolio_file, balance_file, orders_file>>]_vars

\* A refused market buy in a session that holds shares and has pending orders.
C8_Witness ==
    /\ last.op = "market"
    /\ last.action = "buy"
    /\ last.log[1].order.qty * last.log[1].quote.price > balance
    /\ DOMAIN portfolio # {}
    /\ load_limit_orders # <<>>

\* C9: the balance is the starting balance minus the value of the executed
\* buys plus the value of the executed sells since the start or the last reset;
\* in the worked example it goes 999,000, 998,400, 1,000,350 and the holdings
\* end empty.
C9_BalanceIsStartPlusFlows ==
    /\ balance = startBalance - SumBuyValue + SumSellValue
    /\ exStage = 1 => balance = 999000
    /\ exStage = 2 => balance = 998400
    /\ exStage = 3 => balance = 1000350 /\ DOMAIN portfolio = {}

\* The worked example has run to its end.
C9_Witness == exStage = 3

\* The holdings change of an executed sell entry.
C10_SellBooked(e) ==
    LET t == e.order.ticker
        held == IF t \in DOMAIN e.before.portfolio THEN e.before.portfolio[t].qty ELSE 0
    IN  /\ e.order.qty <= held
        /\ e.order.qty = held => t \notin DOMAIN e.after.portfolio
        /\ e.order.qty < held =>
              /\ t \in DOMAIN e.after.portfolio
              /\ e.after.portfolio[t].qty = held - e.order.qty

\* C10: every position held has quantity > 0, in the session and in the
\* portfolio file; an executed sell (market or sweep) never exceeds the
\* holding, deletes the position when it sells all of it and leaves
\* old quantity - sold quantity otherwise.
C10_PositionsPositive ==
    /\ \A t \in DOMAIN portfolio : portfolio[t].qty > 0
    /\ \A t \in DOMAIN LoadPortfolio(portfolio_file) : LoadPortfolio(portfolio_file)[t].qty > 0
    /\ last.op \in {"market", "sweep"} =>
          /\ \A i \in 1..Len(last.log) :
                (last.log[i].outcome = "executed" /\ last.log[i].order.action = "sell")
                    => C10_SellBooked(last.log[i])
          /\ last.log # <<>> => last.log[Len(last.log)].after.portfolio = portfolio

\* A sweep sold a whole position, which is gone from the holdings.
C10_Witness ==
    /\ last.op = "sweep"
    /\ \E i \in 1..Len(last.log) :
          LET e == last.log[i]
          IN  /\ e.outcome = "executed"
              /\ e.order.action = "sell"
              /\ e.order.ticker \in DOMAIN e.before.portfolio
              /\ e.before.portfolio[e.order.ticker].qty = e.order.qty
              /\ e.order.ticker \notin DOMAIN portfolio

\* The average cost of position pos is the volume-weighted average of the buy
\* fills since the position was opened: avg_price = lot_value / lot_qty.
C11_IsVwap(pos) == pos.avg_price.num * pos.lot_qty = pos.lot_value * pos.avg_price.den

\* C11: for every held symbol the average cost is sum(q_i * p_i) / sum(q_i)
\* over its buy fills, after any sequence of buys and sells.
C11_AverageIsVwapOfBuys ==
    \A t \in DOMAIN portfolio : C11_IsVwap(portfolio[t])

\* C11 as amended: for every held symbol of which no share was sold since the
\* position was opened, the average cost is sum(q_i * p_i) / sum(q_i) over the
\* buy fills since then, in the session and in the portfolio file.
C11_AverageIsVwapUntilSold ==
    /\ \A t \in DOMAIN portfolio :
          portfolio[t].lot_qty = portfolio[t].qty => C11_IsVwap(portfolio[t])
    /\ \A t \in DOMAIN LoadPortfolio(portfolio_file) :
          LET pos == LoadPortfolio(portfolio_file)[t]
          IN  pos.lot_qty = pos.qty => C11_IsVwap(pos)

\* A position bought in two fills at different prices and never sold from.
C11_Witness ==
    \E t \in DOMAIN portfolio :
        /\ portfolio[t].lot_qty = portfolio[t].qty
        /\ portfolio[t].avg_price.den > 1

\* The position of an executed buy entry: quantity old_qty + q and average
\* (old_qty * old_avg + q * p) / (old_qty + q), which is p for a new symbol and
\* the average over all fills when the position was only ever bought.
C12_BuyBooked(e) ==
    LET q == e.order.qty
        p == e.quote.price
        t == e.order.ticker
        held == t \in DOMAIN e.before.portfolio
        old_qty == IF held THEN e.before.portfolio[t].qty ELSE 0
        old_avg == IF held THEN e.before.portfolio[t].avg_price ELSE [num |-> 0, den |-> 1]
    IN  /\ t \in DOMAIN e.after.portfolio
        /\ LET new == e.after.portfolio[t]
           IN  /\ new.qty = old_qty + q
               /\ new.avg_price.num * old_avg.den * (old_qty + q)
                    = (old_qty * old_avg.num + q * p * old_avg.den) * new.avg_price.den
               /\ ~held => new.avg_price = [num |-> p, den |-> 1]
               /\ (held /\ e.before.portfolio[t].lot_qty = old_qty) =>
                     new.avg_price.num * (old_qty + q)
                       = (e.before.portfolio[t].lot_value + q * p) * new.avg_price.den

\* C12: a successful buy of q at p, market or sweep, sets the position to
\* quantity old_qty + q and average cost (old_qty * old_avg + q * p) / (old_qty + q),
\* with old_qty = 0 for a new symbol; two buys q1@p1 and q2@p2 from no position
\* give (q1*p1 + q2*p2) / (q1 + q2).
C12_BuySetsWeightedAverage ==
    last.op \in {"market", "sweep"} =>
        /\ \A i \in 1..Len(last.log) :
              (last.log[i].outcome = "executed" /\ last.log[i].order.action = "buy")
                  => C12_BuyBooked(last.log[i])
        /\ last.log[Len(last.log)].after.portfolio = portfolio

\* A market buy added to a position held at another average: two buys at
\* different prices from no position.
C12_Witness ==
    /\ last.op = "market"
    /\ last.action = "buy"
    /\ last.ok
    /\ LET e == last.log[1]
           t == e.order.ticker
       IN  /\ t \in DOMAIN e.before.portfolio
           /\ e.before.portfolio[t].lot_qty = e.before.portfolio[t].qty
           /\ e.before.portfolio[t].avg_price # [num |-> e.quote.price, den |-> 1]
           /\ portfolio[t].avg_price.den > 1

\* The holdings change of an executed sell entry: the average of what is left
\* of the position is the old one, and no other position is touched.
C13_SellFrame(e) ==
    LET t == e.order.ticker
        old == e.before.portfolio
        new == e.after.portfolio
    IN  /\ t \in DOMAIN new => (t \in DOMAIN old /\ new[t].avg_price = old[t].avg_price)
        /\ DOMAIN new \subseteq DOMAIN old
        /\ \A u \in (DOMAIN old) \ {t} : u \in DOMAIN new /\ new[u] = old[u]

\* C13: a successful sell, market or sweep, that leaves a position leaves its
\* average cost as it was, and leaves the positions of all other symbols as
\* they were.
C13_SellKeepsAverage ==
    last.op \in {"market", "sweep"} =>
        /\ \A i \in 1..Len(last.log) :
              (last.log[i].outcome = "executed" /\ last.log[i].order.action = "sell")
                  => C13_SellFrame(last.log[i])
        /\ \A i \in 1..Len(last.log) :
              i < Len(last.log) => last.log[i + 1].before.portfolio = last.log[i].after.portfolio
        /\ last.log[Len(last.log)].after.portfolio = portfolio

\* A sweep sold part of a position at a price other than its average while
\* another symbol was held.
C13_Witness ==
    /\ last.op = "sweep"
    /\ \E i \in 1..Len(last.log) :
          LET e == last.log[i]
              t == e.order.ticker
          IN  /\ e.outcome = "executed"
              /\ e.order.action = "sell"
              /\ t \in DOMAIN portfolio
              /\ portfolio[t].avg_price # [num |-> e.quote.price, den |-> 1]
              /\ DOMAIN portfolio # {t}

\* C14: every order in the pending list has quantity > 0 and limit price > 0
\* (a submission with a non-positive quantity or limit price is rejected and
\* the list stays as it was).
C14_PendingOrdersValid ==
    \A i \in 1..Len(load_limit_orders) :
        /\ load_limit_orders[i].qty > 0
        /\ load_limit_orders[i].target_price > 0

\* C15: a limit submission appends exactly one order at the end of the
\* pending list, keeps the earlier orders in their order, and leaves balance
\* and holdings as they were, in the session and in the files; a buy that
\* costs more than the balance and a sell of shares not held are appended too.
C15_SubmitAppendsOnly ==
    [][last'.op = "limit"
       => /\ Len(load_limit_orders') = Len(load_limit_orders) + 1
          /\ SubSeq(load_limit_orders', 1, Len(load_limit_orders)) = load_limit_orders
          /\ load_limit_orders'[Len(load_limit_orders')].action = last'.action
          /\ UNCHANGED <<portfolio, balance, portfolio_file, balance_file>>]_vars

\* The pending list after a submission holds a sell of shares that are not
\* held and, after it, a buy that costs more than the balance.
C15_Witness ==
    /\ last.op = "limit"
    /\ Len(load_limit_orders) = 2
    /\ load_limit_orders[1].action = "sell"
    /\ load_limit_orders[1].ticker \notin DOMAIN portfolio
    /\ load_limit_orders[2].action = "buy"
    /\ load_limit_orders[2].qty * load_limit_orders[2].target_price > balance

\* C16: after every completed mutating operation (market order, limit
\* submission, sweep, reset) the files, read back with the start-up defaults,
\* give the session's balance and holdings.  The pending list has no copy in
\* the session: it is the content of the order file.
C16_PersistedEqualsSession ==
    (last.op \in {"market", "limit", "sweep", "reset"} /\ last.ok) =>
        /\ LoadPortfolio(portfolio_file) = portfolio
        /\ LoadBalance(balance_file) = balance

\* The ledger change of a market order of entry e from the ledger before it:
\* an executed buy or sell of e.order.qty at the quote e.quote.price.
C17_Applied(e, pf, bal, new_pf, new_bal) ==
    LET q == e.order.qty
        p == e.quote.price
        t == e.order.ticker
        held == IF t \in DOMAIN pf THEN pf[t].qty ELSE 0
    IN  IF e.order.action = "buy"
          THEN /\ new_bal = bal - q * p
               /\ t \in DOMAIN new_pf
               /\ new_pf[t].qty = held + q
          ELSE /\ new_bal = bal + q * p
               /\ IF held = q THEN t \notin DOMAIN new_pf
                  ELSE t \in DOMAIN new_pf /\ new_pf[t].qty = held - q

\* C17: a market order is never pending: placing one, executed or refused,
\* leaves the pending list as it was, and an executed one applies the buy or
\* sell to balance and holdings in that same step, at the quote shown.
C17_MarketOrderNeverPending ==
    [][last'.op = "market"
       => /\ load_limit_orders' = load_limit_orders
          /\ orders_file' = orders_file
          /\ IF last'.ok
               THEN C17_Applied(last'.log[1], portfolio, balance, portfolio', balance')
               ELSE UNCHANGED <<portfolio, balance>>]_vars

\* An executed market order while limit orders were pending.
C17_Witness ==
    /\ last.op = "market"
    /\ last.ok
    /\ load_limit_orders # <<>>

\* C18: a sweep takes the pending orders in insertion order, each against the
\* ledger as the earlier orders of the sweep left it: a triggered order is
\* executed exactly if that ledger can carry it, so of two triggered buys the
\* balance can pay only one of, the earlier executes and the later stays
\* pending; the orders not executed keep their relative order in the pending
\* list after the sweep.
C18_SweepInInsertionOrder ==
    [][last'.op = "sweep"
       => LET log == last'.log
              old == load_limit_orders
              new == load_limit_orders'
              surv == {old[i].id : i \in {j \in 1..Len(old) :
                                           j > Len(log) \/ log[j].outcome # "executed"}}
              Survives(o) == o.id \in surv
          IN  /\ Len(log) <= Len(old)
              /\ \A i \in 1..Len(log) : log[i].order = old[i]
              /\ log[1].before = Ledger(portfolio, balance)
              /\ \A i \in 1..Len(log) :
                    /\ i < Len(log) => log[i + 1].before = log[i].after
                    /\ C3_TriggerMet(log[i]) =>
                          (log[i].outcome = "executed" <=> C5_Affordable(log[i]))
                    /\ log[i].outcome # "executed" =>
                          \E k \in 1..Len(new) : new[k] = log[i].order
              /\ SelectSeq(new, Survives) = SelectSeq(old, Survives)]_vars

\* A completed sweep of three triggered orders: a sell with nothing held stays,
\* the first buy executes, the second buy, which the balance left cannot pay,
\* stays behind the sell.
C18_Witness ==
    /\ last.op = "sweep"
    /\ last.ok
    /\ Len(last.log) = 3
    /\ Len(load_limit_orders) = 2
    /\ \E i, j \in 1..3 :
          /\ i < j
          /\ last.log[i].order.action = "buy"
          /\ last.log[i].outcome = "executed"
          /\ last.log[j].order.action = "buy"
          /\ last.log[j].outcome = "blocked"
          /\ last.log[j].order.qty * last.log[j].quote.price <= last.log[i].before.balance
          /\ load_limit_orders[2] = last.log[j].order

\* C19: orders are settled only by a sweep.  A price refresh leaves balance,
\* holdings and the pending list as they were, in the session and in the
\* files, whatever the quotes now are (the program keeps no quote: every step
\* reads the source anew, so a change of quote is no step of its own); and
\* only a sweep executes a pending order.
C19_SettlesOnlyOnSweep ==
    [][/\ last'.op = "refresh" =>
             UNCHANGED <<portfolio, balance, portfolio_file, balance_file, orders_file>>
       /\ execCount' # execCount => last'.op = "sweep"
       /\ (\E i \in 1..Len(load_limit_orders) :
              \A k \in 1..Len(load_limit_orders') :
                  load_limit_orders'[k] # load_limit_orders[i])
             => last'.op \in {"sweep", "reset"}]_vars

\* A refresh while a pending order could be executed at a quote the price
\* source gives: its trigger is met and the ledger can carry it.
C19_Witness ==
    /\ last.op = "refresh"
    /\ \E i \in 1..Len(load_limit_orders) :
          \E q \in Small.quotes :
              LET o == load_limit_orders[i]
              IN  /\ Triggered(o, q)
                  /\ IF o.action = "buy" THEN CanBuy(balance, o.qty, q)
                     ELSE CanSell(portfolio, o.ticker, o.qty)
                  /\ execCount[o.id] = 0

\* C20: what one operation persists is applied as a unit: after any step of a
\* market order or a sweep, also one cut short between its file writes, the
\* files hold either what they held before (ledger and pending list) or the
\* whole result of the operation: the balance and the holdings it ends with,
\* and no executed order in the pending list.
C20_PersistenceAtomic ==
    [][last'.op \in {"market", "sweep", "killed"}
       => LET old == Ledger(LoadPortfolio(portfolio_file), LoadBalance(balance_file))
              new == Ledger(LoadPortfolio(portfolio_file'), LoadBalance(balance_file'))
              log == last'.log
          IN  \/ new = old /\ load_limit_orders' = load_limit_orders
              \/ /\ new = log[Len(log)].after
                 /\ \A i \in 1..Len(log) :
                       log[i].outcome = "executed" =>
                           \A k \in 1..Len(load_limit_orders') :
                               load_limit_orders'[k] # log[i].order]_vars

\* C21: for every symbol the quantity held (0 without a position) is the
\* quantity of all executed buys minus the quantity of all executed sells of
\* the symbol since the first start or the last reset; and no sell, market or
\* sweep, executes for more shares than are held when it does.
C21_SharesConserved ==
    /\ \A t \in Tickers :
          (IF t \in DOMAIN portfolio THEN portfolio[t].qty ELSE 0)
              = fills[t].all_buy_qty - fills[t].all_sell_qty
    /\ last.op \in {"market", "sweep"} =>
          \A i \in 1..Len(last.log) :
              (last.log[i].outcome = "executed" /\ last.log[i].order.action = "sell") =>
                  /\ last.log[i].order.ticker \in DOMAIN last.log[i].before.portfolio
                  /\ last.log[i].order.qty
                       <= last.log[i].before.portfolio[last.log[i].order.ticker].qty

\* The two paths for one order of the current ledger: the market order, and a
\* sweep of a book holding the same order alone, with its limit at the quote.
C22_Sweep(t, a, q, p) ==
    SweepLoop([portfolio |-> portfolio, balance |-> balance, remaining |-> <<>>,
               changed |-> FALSE, raised |-> FALSE, log |-> <<>>],
              <<[ticker |-> t, action |-> a, qty |-> q, target_price |-> p, id |-> 0]>>,
              <<[kind |-> "price", price |-> p]>>, 1)

C22_MarketOk(t, a, q, p) ==
    IF a = "buy" THEN ~MarketBuyRefused(balance, q, p)
    ELSE ~MarketSellRefused(portfolio, t, q)

C22_Market(t, a, q, p) ==
    IF a = "buy" THEN MarketBuy(portfolio, balance, t, q, p)
    ELSE MarketSell(portfolio, balance, t, q, p)

\* C22: from the same balance and holdings, a buy or sell of q shares at price
\* p > 0 through the market path and through the sweep (trigger met, quote p)
\* are both executed or both refused; executed, they give the same balance and
\* holdings, the position deleted exactly when nothing is left of it; refused,
\* the sweep leaves the ledger alone and keeps the order.
C22_PathsAgree ==
    \A t \in Pair.tickers, a \in Actions, q \in Pair.qtys, p \in Pair.prices :
        LET st == C22_Sweep(t, a, q, p)
            held == IF t \in DOMAIN portfolio THEN portfolio[t].qty ELSE 0
        IN  /\ st.changed <=> C22_MarketOk(t, a, q, p)
            /\ st.changed =>
                  /\ Ledger(st.portfolio, st.balance) = C22_Market(t, a, q, p)
                  /\ st.remaining = <<>>
                  /\ a = "sell" => (t \in DOMAIN st.portfolio <=> held > q)
            /\ ~st.changed =>
                  /\ Ledger(st.portfolio, st.balance) = Ledger(portfolio, balance)
                  /\ Len(st.remaining) = 1

\* After a sweep executed an order: one share of a ticker is held and the
\* balance is below every price, so selling one share empties the position,
\* selling two is refused and every buy is refused, on both paths.
C22_Witness ==
    /\ last.op = "sweep"
    /\ \E i \in 1..Len(last.log) : last.log[i].outcome = "executed"
    /\ \E t \in DOMAIN portfolio : portfolio[t].qty = 1
    /\ balance < 2

====
